---- MODULE Spec2Model ----
(***************************************************************************)
(* Yandex Music playlist backup: reconciliation of the liked-tracks list   *)
(* against the CSV snapshot.  Two programs are modelled:                   *)
(*   "refresh"  src/refresh.py          (likes of a user)                  *)
(*   "backup"   src/backup/refresh.py   (a playlist; unfinished variant)   *)
(* One run of _refresh_playlist is one action.                             *)
(***************************************************************************)
EXTENDS Naturals, Sequences, FiniteSets, TLC

VARIABLES
    program,    \* which of the two scripts is run
    csv_path,   \* the csv_path argument given to every run of the behaviour
    files,      \* the file system: location -> file content
    before,     \* the file system as it was when the last run started
    outcome,    \* how the last run ended
    existing,   \* existing_tracks as loaded by the last run
    fetched,    \* what the remote service answered to the last run
    actual,     \* actual_tracks as fetched by the last run
    refreshed,  \* the list the last run handed to _save_tracks_to_csv
    saved_to,   \* where the last run saved ("" when it did not save)
    added,      \* first component of the returned pair
    added_from, \* the positions in actual_tracks of the objects in added
    deleted,    \* second component of the returned pair
    deleted_from \* the positions in existing_tracks of the objects in deleted

vars == <<program, csv_path, files, before, outcome, existing, fetched, actual,
          refreshed, saved_to, added, added_from, deleted, deleted_from>>

----------------------------------------------------------------------------
(* Bounds *)

\* longest list the remote service returns in one fetch
MaxRemote == 2
\* datetime.now() takes the values 1..MaxTime
MaxTime == 2

----------------------------------------------------------------------------
(* Inputs *)

\* track.id as the remote service gives it
RemoteIds == {10, 2}

\* artists and title the remote catalogue shows at a given time: the entry is
\* edited once, after the first instant
CatalogueAt(now) ==
    IF now <= 1 THEN [artists |-> <<"A">>, title |-> "T"]
    ELSE [artists |-> <<"A", "B">>, title |-> "U"]

Times == 1..MaxTime

DefaultCsvPath == "tracks.csv"
Locations == {DefaultCsvPath, "other.csv"}

RECURSIVE SeqsUpTo(_, _)
SeqsUpTo(S, n) ==
    IF n = 0 THEN {<<>>}
    ELSE LET shorter == SeqsUpTo(S, n - 1)
         IN  shorter \cup {Append(s, e) : s \in {t \in shorter : Len(t) = n - 1}, e \in S}

\* what client.tracks() can return: (id, available) per track, any order,
\* the same id possibly more than once
RawLists == SeqsUpTo([id : RemoteIds, available : BOOLEAN], MaxRemote)

\* one fetch: whether the service answers, what it answers, and the clock
FailedFetch == [ok |-> FALSE, raw |-> <<>>, now |-> MaxTime]
Fetches == [ok : {TRUE}, raw : RawLists, now : Times] \cup {FailedFetch}

----------------------------------------------------------------------------
(* Conversions *)

\* str(track.id): the decimal digits of the id, as a sequence
RECURSIVE Str(_)
Str(n) == IF n < 10 THEN <<n>> ELSE Append(Str(n \div 10), n % 10)

\* ', '.join(names)
RECURSIVE Join(_)
Join(names) ==
    IF Len(names) = 0 THEN ""
    ELSE IF Len(names) = 1 THEN names[1]
    ELSE names[1] \o ", " \o Join(Tail(names))

\* Python's < on str, for strings of digits
RECURSIVE StrLess(_, _)
StrLess(a, b) ==
    IF Len(b) = 0 THEN FALSE
    ELSE IF Len(a) = 0 THEN TRUE
    ELSE IF a[1] # b[1] THEN a[1] < b[1]
    ELSE StrLess(Tail(a), Tail(b))

\* datetime.isoformat(): the text of a timestamp
IsoFormat(t) == [parses |-> TRUE, value |-> t]
\* a text in the added_at column that datetime.fromisoformat() rejects
BadStamp == [parses |-> FALSE, value |-> 0]

\* mutant: the flag is written without int(), as str(bool)
FlagText_AsBoolText(b) == IF b THEN "True" ELSE "False"

\* int(track.is_deleted), as csv.DictWriter writes it
FlagText(b) == IF b THEN "1" ELSE "0"
\* the texts int() accepts, and the value bool(int(text)) has for them
IntTexts == {"0", "1", "2"}
BoolOfIntText(text) == text # "0"

----------------------------------------------------------------------------
(* Track and the CSV file *)

Track(id, artist, title, at, del) ==
    [track_id |-> id, artist |-> artist, title |-> title,
     added_at |-> at, is_deleted |-> del]

TrackIds(tracks) == {tracks[i].track_id : i \in 1..Len(tracks)}

NoFile == [exists |-> FALSE, header |-> FALSE, rows |-> <<>>]

\* sorted(tracks, key=lambda x: x.track_id): stable insertion
RECURSIVE InsertSorted(_, _)
InsertSorted(sorted, t) ==
    IF Len(sorted) = 0 THEN <<t>>
    ELSE IF StrLess(t.track_id, sorted[1].track_id)
         THEN <<t>> \o sorted
         ELSE <<sorted[1]>> \o InsertSorted(Tail(sorted), t)

RECURSIVE SortedByTrackId(_)
SortedByTrackId(tracks) ==
    IF Len(tracks) = 0 THEN <<>>
    ELSE InsertSorted(SortedByTrackId(SubSeq(tracks, 1, Len(tracks) - 1)),
                      tracks[Len(tracks)])

\* one row as _save_tracks_to_csv writes it
CsvRow(t) ==
    [track_id |-> t.track_id, artist |-> t.artist, title |-> t.title,
     added_at |-> IsoFormat(t.added_at), is_deleted |-> FlagText(t.is_deleted)]

\* _save_tracks_to_csv: the file is opened with mode 'w' and rewritten whole
SaveTracksToCsv(tracks) ==
    LET sorted == SortedByTrackId(tracks)
    IN  [exists |-> TRUE, header |-> TRUE,
         rows |-> [i \in 1..Len(sorted) |-> CsvRow(sorted[i])]]

RowParses(row) == row.added_at.parses /\ row.is_deleted \in IntTexts

ParseRow(row) ==
    Track(row.track_id, row.artist, row.title, row.added_at.value,
          BoolOfIntText(row.is_deleted))

\* _get_tracks_from_csv: [err, tracks]
GetTracksFromCsv(f) ==
    IF ~f.exists THEN [err |-> "RuntimeError", tracks |-> <<>>]
    ELSE IF Len(f.rows) > 0 /\ ~f.header THEN [err |-> "KeyError", tracks |-> <<>>]
    ELSE IF \E i \in 1..Len(f.rows) : ~RowParses(f.rows[i])
         THEN [err |-> "ValueError", tracks |-> <<>>]
    ELSE [err |-> "", tracks |-> [i \in 1..Len(f.rows) |-> ParseRow(f.rows[i])]]

----------------------------------------------------------------------------
(* Remote fetch *)

\* the list comprehension of _get_liked_tracks / _get_playlist_tracks
RemoteTrack(raw, now) ==
    Track(Str(raw.id), Join(CatalogueAt(now).artists), CatalogueAt(now).title,
          now, ~raw.available)

\* mutant: a failed fetch is taken for an empty list
GetLikedTracks_FailureAsEmpty(fetch) ==
    [err |-> "",
     tracks |-> [i \in 1..Len(fetch.raw) |-> RemoteTrack(fetch.raw[i], fetch.now)]]

\* _get_liked_tracks: [err, tracks]
GetLikedTracks(fetch) ==
    IF ~fetch.ok THEN [err |-> "RuntimeError", tracks |-> <<>>]
    ELSE [err |-> "",
          tracks |-> [i \in 1..Len(fetch.raw) |->
                         RemoteTrack(fetch.raw[i], fetch.now)]]

----------------------------------------------------------------------------
(* Reconciliation, src/refresh.py *)

HasActual(actual_tracks, id) == id \in TrackIds(actual_tracks)

\* actual_tracks_by_id.get(id): the dict comprehension keeps the last record
\* of an id; only used where HasActual holds
ActualById(actual_tracks, id) ==
    LET last == CHOOSE i \in 1..Len(actual_tracks) :
                    /\ actual_tracks[i].track_id = id
                    /\ \A j \in (i + 1)..Len(actual_tracks) : actual_tracks[j].track_id # id
    IN  actual_tracks[last]

\* mutant: a tombstone comes back as soon as the remote list has the id
IsRestored_IgnoringAvailability(exist_track, actual_tracks) ==
    /\ exist_track.is_deleted
    /\ HasActual(actual_tracks, exist_track.track_id)

\* line 81: actual_track and not actual_track.is_deleted
IsRestored(exist_track, actual_tracks) ==
    /\ exist_track.is_deleted
    /\ HasActual(actual_tracks, exist_track.track_id)
    /\ ~ActualById(actual_tracks, exist_track.track_id).is_deleted

\* mutant: only a track that left the remote list counts as deleted
IsDeleted_IgnoringAvailability(exist_track, actual_tracks) ==
    /\ ~exist_track.is_deleted
    /\ ~HasActual(actual_tracks, exist_track.track_id)

\* line 86: not actual_track or actual_track.is_deleted
IsDeleted(exist_track, actual_tracks) ==
    /\ ~exist_track.is_deleted
    /\ \/ ~HasActual(actual_tracks, exist_track.track_id)
       \/ ActualById(actual_tracks, exist_track.track_id).is_deleted

\* mutant: a restored record is replaced by the freshly fetched one
RefreshedTrack_Refetched(exist_track, actual_tracks) ==
    IF IsRestored(exist_track, actual_tracks)
    THEN ActualById(actual_tracks, exist_track.track_id)
    ELSE IF IsDeleted(exist_track, actual_tracks)
    THEN [exist_track EXCEPT !.is_deleted = TRUE]
    ELSE exist_track

\* mutant: artist and title are refreshed from the remote record
RefreshedTrack_UpdatingNames(exist_track, actual_tracks) ==
    LET kept == IF IsRestored(exist_track, actual_tracks)
                THEN [exist_track EXCEPT !.is_deleted = FALSE]
                ELSE IF IsDeleted(exist_track, actual_tracks)
                THEN [exist_track EXCEPT !.is_deleted = TRUE]
                ELSE exist_track
    IN  IF HasActual(actual_tracks, exist_track.track_id)
        THEN [kept EXCEPT !.artist = ActualById(actual_tracks, exist_track.track_id).artist,
                          !.title = ActualById(actual_tracks, exist_track.track_id).title]
        ELSE kept

\* the body of the loop over existing_tracks: the record as it is appended
RefreshedTrack(exist_track, actual_tracks) ==
    IF IsRestored(exist_track, actual_tracks)
    THEN [exist_track EXCEPT !.is_deleted = FALSE]
    ELSE IF IsDeleted(exist_track, actual_tracks)
    THEN [exist_track EXCEPT !.is_deleted = TRUE]
    ELSE exist_track

\* lines 78-91: the positions in existing_tracks of the objects appended to
\* deleted_tracks, in the order of the loop
RECURSIVE DeletedFrom(_, _, _)
DeletedFrom(existing_tracks, actual_tracks, i) ==
    IF i > Len(existing_tracks) THEN <<>>
    ELSE IF IsDeleted(existing_tracks[i], actual_tracks)
    THEN <<i>> \o DeletedFrom(existing_tracks, actual_tracks, i + 1)
    ELSE DeletedFrom(existing_tracks, actual_tracks, i + 1)

\* mutant: an unavailable track is not taken for a new one
RECURSIVE AddedFrom_SkippingUnavailable(_, _, _)
AddedFrom_SkippingUnavailable(existing_track_ids, actual_tracks, i) ==
    IF i > Len(actual_tracks) THEN <<>>
    ELSE IF /\ actual_tracks[i].track_id \notin existing_track_ids
            /\ ~actual_tracks[i].is_deleted
    THEN <<i>> \o AddedFrom_SkippingUnavailable(existing_track_ids, actual_tracks, i + 1)
    ELSE AddedFrom_SkippingUnavailable(existing_track_ids, actual_tracks, i + 1)

\* lines 94-98: the positions in actual_tracks of the objects appended to
\* added_tracks (and to refreshed_tracks), in the order of the loop
RECURSIVE AddedFrom(_, _, _)
AddedFrom(existing_track_ids, actual_tracks, i) ==
    IF i > Len(actual_tracks) THEN <<>>
    ELSE IF actual_tracks[i].track_id \notin existing_track_ids
    THEN <<i>> \o AddedFrom(existing_track_ids, actual_tracks, i + 1)
    ELSE AddedFrom(existing_track_ids, actual_tracks, i + 1)

\* existing_tracks after the loop of lines 78-91 has mutated its objects
MutatedExisting(existing_tracks, actual_tracks) ==
    [i \in 1..Len(existing_tracks) |-> RefreshedTrack(existing_tracks[i], actual_tracks)]

\* the objects at the given positions of a list
At(tracks, positions) == [k \in 1..Len(positions) |-> tracks[positions[k]]]

\* mutant: records that are deleted are dropped instead of kept as tombstones
RefreshedTracks_DroppingTombstones(existing_tracks, actual_tracks) ==
    SelectSeq(MutatedExisting(existing_tracks, actual_tracks), LAMBDA t : ~t.is_deleted)
    \o At(actual_tracks, AddedFrom(TrackIds(existing_tracks), actual_tracks, 1))

\* mutant: a new track is reported as added but not appended to the snapshot
RefreshedTracks_WithoutAdded(existing_tracks, actual_tracks) ==
    MutatedExisting(existing_tracks, actual_tracks)

\* refreshed_tracks at line 100
RefreshedTracks(existing_tracks, actual_tracks) ==
    MutatedExisting(existing_tracks, actual_tracks)
    \o At(actual_tracks, AddedFrom(TrackIds(existing_tracks), actual_tracks, 1))

\* a fetch that was never made
NoFetch == [ok |-> FALSE, raw |-> <<>>, now |-> 0]

\* a run that ends with an exception: nothing is saved, nothing returned
Raised(fs, how, existing_tracks, fetch) ==
    [files |-> fs, outcome |-> how, existing |-> existing_tracks, fetched |-> fetch,
     actual |-> <<>>, refreshed |-> <<>>, saved_to |-> "",
     added |-> <<>>, added_from |-> <<>>, deleted |-> <<>>, deleted_from |-> <<>>]

\* the csv_path of the save of the general path, line 100: none is given, so
\* the parameter's default is used
GeneralSavePath(path) == DefaultCsvPath

\* mutant: the missing file is not caught
LoadOrEmpty_NotCaught(f) == GetTracksFromCsv(f)

\* lines 59-62: only RuntimeError (file not found) becomes an empty list
LoadOrEmpty(f) ==
    LET loaded == GetTracksFromCsv(f)
    IN  IF loaded.err = "RuntimeError" THEN [err |-> "", tracks |-> <<>>] ELSE loaded

\* lines 71-74: the initial run
InitialRun(fs, path, fetch, actual_tracks) ==
    [files |-> [fs EXCEPT ![path] = SaveTracksToCsv(actual_tracks)],
     outcome |-> "returned", existing |-> <<>>, fetched |-> fetch,
     actual |-> actual_tracks, refreshed |-> actual_tracks, saved_to |-> path,
     added |-> actual_tracks, added_from |-> [i \in 1..Len(actual_tracks) |-> i],
     deleted |-> <<>>, deleted_from |-> <<>>]

\* lines 76-101: the general path
GeneralRun(fs, path, fetch, existing_tracks, actual_tracks) ==
    LET refreshed_tracks == RefreshedTracks(existing_tracks, actual_tracks)
        added_pos == AddedFrom(TrackIds(existing_tracks), actual_tracks, 1)
        deleted_pos == DeletedFrom(existing_tracks, actual_tracks, 1)
    IN  [files |-> [fs EXCEPT ![GeneralSavePath(path)] = SaveTracksToCsv(refreshed_tracks)],
         outcome |-> "returned", existing |-> existing_tracks, fetched |-> fetch,
         actual |-> actual_tracks, refreshed |-> refreshed_tracks,
         saved_to |-> GeneralSavePath(path),
         added |-> At(actual_tracks, added_pos), added_from |-> added_pos,
         deleted |-> At(MutatedExisting(existing_tracks, actual_tracks), deleted_pos),
         deleted_from |-> deleted_pos]

\* _refresh_playlist of src/refresh.py
RefreshPlaylist(fs, path, fetch) ==
    LET loaded == LoadOrEmpty(fs[path])
        got == GetLikedTracks(fetch)
    IN  IF loaded.err # "" THEN Raised(fs, "load raised", <<>>, NoFetch)
        ELSE IF got.err # "" THEN Raised(fs, "fetch raised", loaded.tracks, fetch)
        ELSE IF Len(loaded.tracks) = 0 THEN InitialRun(fs, path, fetch, got.tracks)
        ELSE GeneralRun(fs, path, fetch, loaded.tracks, got.tracks)

----------------------------------------------------------------------------
(* src/backup/refresh.py *)

\* lines 83-85: the initial run saves and returns the deep copy
BackupInitialRun(fs, path, fetch, actual_tracks) ==
    LET refreshed_tracks == actual_tracks   \* copy.deepcopy: equal field values
    IN  [files |-> [fs EXCEPT ![path] = SaveTracksToCsv(refreshed_tracks)],
         outcome |-> "returned", existing |-> <<>>, fetched |-> fetch,
         actual |-> actual_tracks, refreshed |-> refreshed_tracks, saved_to |-> path,
         added |-> refreshed_tracks, added_from |-> [i \in 1..Len(actual_tracks) |-> i],
         deleted |-> <<>>, deleted_from |-> <<>>]

\* lines 87-94 and the end of the function: the loop logs and sets an
\* attribute deleted_at that is no field of Track; nothing is saved and the
\* function falls off its end, returning None
BackupGeneralRun(fs, path, fetch, existing_tracks, actual_tracks) ==
    [files |-> fs, outcome |-> "returned None", existing |-> existing_tracks,
     fetched |-> fetch, actual |-> actual_tracks, refreshed |-> <<>>, saved_to |-> "",
     added |-> <<>>, added_from |-> <<>>, deleted |-> <<>>, deleted_from |-> <<>>]

\* _refresh_playlist of src/backup/refresh.py
BackupRefreshPlaylist(fs, path, fetch) ==
    LET loaded == LoadOrEmpty(fs[path])
        got == GetLikedTracks(fetch)
    IN  IF loaded.err # "" THEN Raised(fs, "load raised", <<>>, NoFetch)
        ELSE IF got.err # "" THEN Raised(fs, "fetch raised", loaded.tracks, fetch)
        ELSE IF Len(loaded.tracks) = 0 THEN BackupInitialRun(fs, path, fetch, got.tracks)
        ELSE BackupGeneralRun(fs, path, fetch, loaded.tracks, got.tracks)

----------------------------------------------------------------------------
(* The state machine *)

\* a row of a snapshot file that was not written by this program
ForeignRow(stamp, flag) ==
    [track_id |-> Str(2), artist |-> "A", title |-> "T",
     added_at |-> stamp, is_deleted |-> flag]

\* what the location can hold before the first run: nothing, or a file the
\* program did not write (edited by hand, damaged, or empty)
SeedFiles ==
    { NoFile,
      [exists |-> TRUE, header |-> FALSE, rows |-> <<>>],
      [exists |-> TRUE, header |-> FALSE, rows |-> <<ForeignRow(IsoFormat(1), "0")>>],
      [exists |-> TRUE, header |-> TRUE, rows |-> <<ForeignRow(BadStamp, "0")>>],
      [exists |-> TRUE, header |-> TRUE, rows |-> <<ForeignRow(IsoFormat(1), "x")>>],
      [exists |-> TRUE, header |-> TRUE, rows |-> <<ForeignRow(IsoFormat(1), "2")>>] }

\* main() gives no csv_path: every run of the program uses the default
Init ==
    /\ program \in {"refresh", "backup"}
    /\ csv_path = DefaultCsvPath
    /\ \E seed \in SeedFiles :
           files = [l \in Locations |-> IF l = csv_path THEN seed ELSE NoFile]
    /\ before = files
    /\ outcome = "idle"
    /\ existing = <<>>
    /\ fetched = NoFetch
    /\ actual = <<>>
    /\ refreshed = <<>>
    /\ saved_to = ""
    /\ added = <<>>
    /\ added_from = <<>>
    /\ deleted = <<>>
    /\ deleted_from = <<>>

\* _refresh_playlist called with any csv_path, as a caller other than main may
InitPath ==
    /\ program \in {"refresh", "backup"}
    /\ csv_path \in Locations
    /\ \E seed \in SeedFiles :
           files = [l \in Locations |-> IF l = csv_path THEN seed ELSE NoFile]
    /\ before = files
    /\ outcome = "idle"
    /\ existing = <<>>
    /\ fetched = NoFetch
    /\ actual = <<>>
    /\ refreshed = <<>>
    /\ saved_to = ""
    /\ added = <<>>
    /\ added_from = <<>>
    /\ deleted = <<>>
    /\ deleted_from = <<>>

Finish(run) ==
    /\ before' = files
    /\ files' = run.files
    /\ outcome' = run.outcome
    /\ existing' = run.existing
    /\ fetched' = run.fetched
    /\ actual' = run.actual
    /\ refreshed' = run.refreshed
    /\ saved_to' = run.saved_to
    /\ added' = run.added
    /\ added_from' = run.added_from
    /\ deleted' = run.deleted
    /\ deleted_from' = run.deleted_from
    /\ UNCHANGED <<program, csv_path>>

\* python refresh.py: one run of _refresh_playlist
RunRefresh ==
    /\ program = "refresh"
    /\ outcome = "idle"
    /\ \E fetch \in Fetches : Finish(RefreshPlaylist(files, csv_path, fetch))

\* python backup/refresh.py
RunBackup ==
    /\ program = "backup"
    /\ outcome = "idle"
    /\ \E fetch \in Fetches : Finish(BackupRefreshPlaylist(files, csv_path, fetch))

\* main logs the change sets, or the exception ends it: the process exits and
\* nothing but the files outlives it
Exit ==
    /\ outcome # "idle"
    /\ outcome' = "idle"
    /\ before' = files
    /\ existing' = <<>>
    /\ fetched' = NoFetch
    /\ actual' = <<>>
    /\ refreshed' = <<>>
    /\ saved_to' = ""
    /\ added' = <<>>
    /\ added_from' = <<>>
    /\ deleted' = <<>>
    /\ deleted_from' = <<>>
    /\ UNCHANGED <<program, csv_path, files>>

Next == RunRefresh \/ RunBackup \/ Exit

Spec == Init /\ [][Next]_vars

SpecPath == InitPath /\ [][Next]_vars

----------------------------------------------------------------------------
(* A run that is killed *)

\* _save_tracks_to_csv stopped after `written` steps: open(csv_path, 'w') has
\* emptied the file (0), then the header and the first written - 1 rows are
\* in it
InterruptedSave(tracks, written) ==
    IF written = 0 THEN [exists |-> TRUE, header |-> FALSE, rows |-> <<>>]
    ELSE [exists |-> TRUE, header |-> TRUE,
          rows |-> SubSeq(SaveTracksToCsv(tracks).rows, 1, written - 1)]

\* the variables after the process was killed: the run returned nothing
Kill(run, fs) ==
    /\ before' = files
    /\ files' = fs
    /\ outcome' = "killed"
    /\ existing' = run.existing
    /\ fetched' = run.fetched
    /\ actual' = run.actual
    /\ refreshed' = run.refreshed
    /\ saved_to' = ""
    /\ added' = <<>>
    /\ added_from' = <<>>
    /\ deleted' = <<>>
    /\ deleted_from' = <<>>
    /\ UNCHANGED <<program, csv_path>>

\* what the run would do if it were left alone
WholeRun(fetch) ==
    IF program = "refresh" THEN RefreshPlaylist(files, csv_path, fetch)
    ELSE BackupRefreshPlaylist(files, csv_path, fetch)

\* the process is killed after the fetch and before the save opens the file
KilledBeforeSave ==
    /\ outcome = "idle"
    /\ \E fetch \in Fetches :
           LET run == WholeRun(fetch)
           IN  /\ run.saved_to # ""
               /\ Kill(run, files)

\* the process is killed inside _save_tracks_to_csv, before the last row
KilledInSave ==
    /\ outcome = "idle"
    /\ \E fetch \in Fetches :
           LET run == WholeRun(fetch)
           IN  /\ run.saved_to # ""
               /\ \E written \in 0..Len(run.refreshed) :
                      Kill(run, [files EXCEPT ![run.saved_to] =
                                     InterruptedSave(run.refreshed, written)])

NextCrash == RunRefresh \/ RunBackup \/ Exit \/ KilledBeforeSave \/ KilledInSave

SpecCrash == Init /\ [][NextCrash]_vars

----------------------------------------------------------------------------
(* The snapshot store alone: _save_tracks_to_csv, then _get_tracks_from_csv *)

\* the Track records a list can hold
StoredTracks ==
    { Track(Str(id), Join(CatalogueAt(t).artists), CatalogueAt(t).title, t, del) :
        id \in RemoteIds, t \in Times, del \in BOOLEAN }

\* the lists handed to _save_tracks_to_csv, in any order
TrackLists == SeqsUpTo(StoredTracks, MaxRemote)

\* what the location holds before the save: nothing, a foreign file, or an
\* earlier snapshot of one record
EarlierFiles ==
    SeedFiles \cup {SaveTracksToCsv(<<t>>) : t \in StoredTracks}

InitStore ==
    /\ program \in {"refresh", "backup"}
    /\ csv_path = DefaultCsvPath
    /\ \E earlier \in EarlierFiles :
           files = [l \in Locations |-> IF l = csv_path THEN earlier ELSE NoFile]
    /\ before = files
    /\ outcome = "idle"
    /\ existing = <<>>
    /\ fetched = NoFetch
    /\ actual = <<>>
    /\ refreshed \in TrackLists
    /\ saved_to = ""
    /\ added = <<>>
    /\ added_from = <<>>
    /\ deleted = <<>>
    /\ deleted_from = <<>>

\* _save_tracks_to_csv(refreshed, csv_path)
StoreSave ==
    /\ outcome = "idle"
    /\ before' = files
    /\ files' = [files EXCEPT ![csv_path] = SaveTracksToCsv(refreshed)]
    /\ saved_to' = csv_path
    /\ outcome' = "saved"
    /\ UNCHANGED <<program, csv_path, existing, fetched, actual, refreshed,
                   added, added_from, deleted, deleted_from>>

\* existing = _get_tracks_from_csv(csv_path)
StoreLoad ==
    /\ outcome = "saved"
    /\ LET loaded == GetTracksFromCsv(files[csv_path])
       IN  /\ existing' = loaded.tracks
           /\ outcome' = IF loaded.err = "" THEN "loaded" ELSE "load raised"
    /\ UNCHANGED <<program, csv_path, files, before, fetched, actual, refreshed,
                   saved_to, added, added_from, deleted, deleted_from>>

NextStore == StoreSave \/ StoreLoad

SpecStore == InitStore /\ [][NextStore]_vars

----------------------------------------------------------------------------
(* Vocabulary of the properties *)

\* a run has ended and its results are still at hand
Ended == outcome # "idle"
\* a run of src/refresh.py went through the general path
GeneralDone == program = "refresh" /\ outcome = "returned" /\ Len(existing) > 0

Range(seq) == {seq[i] : i \in 1..Len(seq)}
Count(seq, x) == Cardinality({i \in 1..Len(seq) : seq[i] = x})
SameBag(s, t) ==
    /\ Len(s) = Len(t)
    /\ \A x \in Range(s) \cup Range(t) : Count(s, x) = Count(t, x)
NoDuplicateId(tracks) ==
    \A i, j \in 1..Len(tracks) : i # j => tracks[i].track_id # tracks[j].track_id

\* the snapshot at the run's location, before the run and now
Previous == before[csv_path]
Persisted == files[csv_path]
RowIds(f) == {f.rows[i].track_id : i \in 1..Len(f.rows)}
StampsOf(f, id) == {f.rows[i].added_at : i \in {k \in 1..Len(f.rows) : f.rows[k].track_id = id}}

\* the remote list has the id, and what its record says (the last one, should
\* the id come twice)
InRemote(id) == \E i \in 1..Len(actual) : actual[i].track_id = id
RemoteAvailable(id) ==
    \E i \in 1..Len(actual) :
        /\ actual[i].track_id = id
        /\ ~actual[i].is_deleted
        /\ \A j \in 1..Len(actual) : actual[j].track_id = id => j <= i

----------------------------------------------------------------------------
(* C1: tombstone invariant.  Every track_id of the previous snapshot is in  *)
(* the new snapshot of the run and the record count does not decrease; the *)
(* snapshot persisted at the location never loses a track_id or a row.     *)
C1_Tombstone ==
    /\ (outcome = "returned" /\ saved_to # "") =>
           /\ TrackIds(existing) \subseteq TrackIds(refreshed)
           /\ Len(refreshed) >= Len(existing)
           /\ TrackIds(existing) \subseteq RowIds(files[saved_to])
    /\ RowIds(Previous) \subseteq RowIds(Persisted)
    /\ Len(Persisted.rows) >= Len(Previous.rows)

\* a track that left the remote list is still in the new snapshot
C1_Witness ==
    /\ GeneralDone
    /\ \E i \in 1..Len(existing) :
           /\ ~InRemote(existing[i].track_id)
           /\ existing[i].track_id \in RowIds(Persisted)

(* C2: uniqueness.  Given a previous snapshot with unique track_ids, the   *)
(* new snapshot written by a run of src/refresh.py has no duplicate        *)
(* track_id, whatever the remote list.                                     *)
C2_Uniqueness ==
    (program = "refresh" /\ outcome = "returned" /\ NoDuplicateId(existing)) =>
        /\ NoDuplicateId(refreshed)
        /\ Cardinality(RowIds(files[saved_to])) = Len(files[saved_to].rows)

\* a fetch that answers the list the last run saw: same ids, same availability
SameRemote(fetch) ==
    /\ fetch.ok
    /\ Len(fetch.raw) = Len(fetched.raw)
    /\ \A i \in 1..Len(fetch.raw) :
           /\ fetch.raw[i].id = fetched.raw[i].id
           /\ fetch.raw[i].available = fetched.raw[i].available

(* C3: idempotence.  After a completed run against remote list R, a next  *)
(* run against the same location that sees the same R (same track_ids and  *)
(* availability flags) returns empty added and deleted and persists a      *)
(* snapshot set-equal to the one persisted now.                            *)
C3_Idempotence ==
    (program = "refresh" /\ outcome = "returned") =>
        \A fetch \in Fetches :
            SameRemote(fetch) =>
                LET next == RefreshPlaylist(files, csv_path, fetch)
                IN  /\ next.outcome = "returned"
                    /\ next.added = <<>>
                    /\ next.deleted = <<>>
                    /\ Range(next.files[csv_path].rows) = Range(Persisted.rows)

\* a live record whose track is gone from the remote list or unavailable there
Vanished(p) == ~p.is_deleted /\ ~RemoteAvailable(p.track_id)

(* C4: deletion.  In the general path the deleted list holds exactly the   *)
(* previous records that were not deleted and whose track_id is absent     *)
(* from the remote list or unavailable there; each has is_deleted = true   *)
(* in the new snapshot; no other previous record is reported.              *)
C4_Deletion ==
    GeneralDone =>
        /\ Range(deleted_from) = {i \in 1..Len(existing) : Vanished(existing[i])}
        /\ Len(deleted) = Cardinality(Range(deleted_from))
        /\ \A k \in 1..Len(deleted) :
               deleted[k] = [existing[deleted_from[k]] EXCEPT !.is_deleted = TRUE]
        /\ \A i \in 1..Len(existing) :
               Vanished(existing[i]) =>
                   refreshed[i] = [existing[i] EXCEPT !.is_deleted = TRUE]

\* one record left the remote list, another became unavailable there
C4_Witness ==
    /\ GeneralDone
    /\ Len(deleted) = 2
    /\ \E i, j \in 1..Len(existing) :
           /\ Vanished(existing[i]) /\ ~InRemote(existing[i].track_id)
           /\ Vanished(existing[j]) /\ InRemote(existing[j].track_id)

(* C5: restoration.  In the general path a previous record with            *)
(* is_deleted = true is kept with is_deleted = false when the remote list  *)
(* has its track_id available, and stays is_deleted = true otherwise; in   *)
(* both cases it is in neither added nor deleted.                          *)
C5_Restoration ==
    GeneralDone =>
        \A i \in 1..Len(existing) :
            existing[i].is_deleted =>
                /\ refreshed[i] =
                       [existing[i] EXCEPT !.is_deleted = ~RemoteAvailable(existing[i].track_id)]
                /\ i \notin Range(deleted_from)
                /\ existing[i].track_id \notin TrackIds(added)

\* one tombstone comes back, another stays
C5_Witness ==
    /\ GeneralDone
    /\ \E i, j \in 1..Len(existing) :
           /\ existing[i].is_deleted /\ ~refreshed[i].is_deleted
           /\ existing[j].is_deleted /\ refreshed[j].is_deleted
           /\ InRemote(existing[j].track_id)

(* C6: added_at is stable.  A track_id that has a record in the persisted  *)
(* snapshot keeps its added_at in the snapshot persisted after any run,    *)
(* also when it is deleted or restored or fetched with a newer timestamp.  *)
C6_AddedAtStable ==
    \A id \in RowIds(Previous) : StampsOf(Persisted, id) = StampsOf(Previous, id)

\* a tombstone is restored by a fetch that carries another timestamp
C6_Witness ==
    /\ outcome = "returned"
    /\ Persisted # Previous
    /\ \E i \in 1..Len(existing), j \in 1..Len(actual) :
           /\ existing[i].track_id = actual[j].track_id
           /\ existing[i].is_deleted /\ ~actual[j].is_deleted
           /\ existing[i].added_at # actual[j].added_at
           /\ StampsOf(Persisted, existing[i].track_id) = {IsoFormat(existing[i].added_at)}

\* no file, or a file without records; the row a remote track is stored as
NothingStored(f) == ~f.exists \/ Len(f.rows) = 0
ExpectedRow(raw, now) ==
    [track_id |-> Str(raw.id), artist |-> Join(CatalogueAt(now).artists),
     title |-> CatalogueAt(now).title, added_at |-> IsoFormat(now),
     is_deleted |-> IF raw.available THEN "0" ELSE "1"]

(* C7: initial run.  With no snapshot file at the location, or one that    *)
(* holds no record, a run does not fail (unless the fetch raises): it      *)
(* persists exactly the remote list, is_deleted being the negated          *)
(* availability, and returns added = the remote list, deleted = empty.     *)
C7_InitialRun ==
    (Ended /\ NothingStored(Previous) /\ outcome # "fetch raised") =>
        /\ outcome = "returned"
        /\ fetched.ok
        /\ Persisted.exists /\ Persisted.header
        /\ SameBag(Persisted.rows,
                   [i \in 1..Len(fetched.raw) |-> ExpectedRow(fetched.raw[i], fetched.now)])
        /\ Len(added) = Len(fetched.raw)
        /\ \A i \in 1..Len(added) :
               /\ added[i].track_id = Str(fetched.raw[i].id)
               /\ added[i].is_deleted = ~fetched.raw[i].available
               /\ added[i].added_at = fetched.now
        /\ deleted = <<>>

\* no file, and the remote list holds an unavailable track
C7_Witness ==
    /\ outcome = "returned"
    /\ ~Previous.exists
    /\ \E i \in 1..Len(fetched.raw) : ~fetched.raw[i].available
    /\ \E i \in 1..Len(Persisted.rows) : Persisted.rows[i].is_deleted = "1"

(* C8: newly observed tracks.  In the general path added holds exactly the *)
(* remote records whose track_id is not in the previous snapshot, each is  *)
(* appended to the new snapshot with the remote record's is_deleted, none  *)
(* of them is in deleted, and no previous track_id is reported as added.   *)
C8_NewlyObserved ==
    GeneralDone =>
        /\ Range(added_from) =
               {i \in 1..Len(actual) : actual[i].track_id \notin TrackIds(existing)}
        /\ Len(added) = Cardinality(Range(added_from))
        /\ \A k \in 1..Len(added) :
               /\ added[k] = actual[added_from[k]]
               /\ added[k].is_deleted = ~fetched.raw[added_from[k]].available
               /\ refreshed[Len(existing) + k] = added[k]
        /\ Len(refreshed) = Len(existing) + Len(added)
        /\ TrackIds(added) \cap TrackIds(deleted) = {}
        /\ TrackIds(added) \cap TrackIds(existing) = {}

\* a new track that is unavailable: stored as deleted, reported as added
C8_Witness ==
    /\ GeneralDone
    /\ \E k \in 1..Len(added) :
           /\ added[k].is_deleted
           /\ \E i \in 1..Len(Persisted.rows) :
                  /\ Persisted.rows[i].track_id = added[k].track_id
                  /\ Persisted.rows[i].is_deleted = "1"

(* C9: remote fetch failure.  When the fetch raises, the run ends with     *)
(* that error, saves nothing and leaves every file as it was; a missing    *)
(* snapshot file is not created.                                           *)
C9_FetchFailure ==
    (Ended /\ outcome # "load raised" /\ ~fetched.ok) =>
        /\ outcome = "fetch raised"
        /\ saved_to = ""
        /\ files = before
        /\ added = <<>> /\ deleted = <<>>

\* the fetch failed over a stored snapshot, which is still there
C9_Witness ==
    /\ outcome = "fetch raised"
    /\ Len(existing) > 0
    /\ Persisted = Previous

\* a file with a row that is no valid Track record
Malformed(f) ==
    /\ f.exists
    /\ \E i \in 1..Len(f.rows) :
           \/ ~f.header
           \/ ~f.rows[i].added_at.parses
           \/ f.rows[i].is_deleted \notin {"0", "1"}

(* C10: malformed snapshot.  When the file exists but a row cannot be      *)
(* parsed into a Track (a column is missing, the deleted flag is not 0 or  *)
(* 1, the timestamp does not parse), the load error propagates: the run is *)
(* no initial run, reconciles nothing and leaves the snapshot unchanged.   *)
C10_MalformedSnapshot ==
    (Ended /\ Malformed(Previous)) =>
        /\ outcome = "load raised"
        /\ saved_to = ""
        /\ files = before

(* C11: interruption recovery.  A run that is interrupted before its save *)
(* has completed leaves the persisted snapshot as the last completed save  *)
(* left it: the next run loads the records it would have loaded before,    *)
(* never a partially written snapshot.                                     *)
C11_InterruptionRecovery ==
    outcome = "killed" => LoadOrEmpty(Persisted) = LoadOrEmpty(Previous)

(* C12: round trip.  Saving a list of Track records to a location and     *)
(* loading the location yields the saved records, equal as a set with all  *)
(* five fields, and the file holds one row per saved record: nothing of    *)
(* what the location held before survives.                                 *)
C12_RoundTrip ==
    /\ outcome = "saved" =>
           /\ Persisted.exists /\ Persisted.header
           /\ Len(Persisted.rows) = Len(refreshed)
    /\ outcome # "load raised"
    /\ outcome = "loaded" =>
           /\ Range(existing) = Range(refreshed)
           /\ Len(existing) = Len(refreshed)

\* two records with unique ids, given out of order, over an earlier snapshot
\* of another content
C12_Witness ==
    /\ outcome = "loaded"
    /\ Len(refreshed) = 2
    /\ NoDuplicateId(refreshed)
    /\ existing # refreshed
    /\ Len(Previous.rows) = 1
    /\ Previous.rows[1] \notin Range(Persisted.rows)

\* the orders a list can be given in
PermutationsOf(tracks) ==
    { [i \in 1..Len(tracks) |-> tracks[f[i]]] :
        f \in {g \in [1..Len(tracks) -> 1..Len(tracks)] :
                  \A i, j \in 1..Len(tracks) : i # j => g[i] # g[j]} }

(* C13: deterministic write order.  The rows are written in ascending      *)
(* order of track_id, compared as strings, and every permutation of the    *)
(* saved list would have produced the same row sequence.                   *)
C13_WriteOrder ==
    (outcome = "returned" /\ saved_to # "") =>
        /\ \A i, j \in 1..Len(files[saved_to].rows) :
               i < j => ~StrLess(files[saved_to].rows[j].track_id,
                                 files[saved_to].rows[i].track_id)
        /\ \A other \in PermutationsOf(refreshed) :
               SaveTracksToCsv(other).rows = files[saved_to].rows

(* C14: same-location persistence.  A run that completes writes its new   *)
(* snapshot to the csv_path it loaded the previous one from, whatever the  *)
(* csv_path, so the next run with that csv_path loads exactly the snapshot *)
(* this run computed.                                                      *)
C14_SameLocation ==
    outcome = "returned" =>
        /\ saved_to = csv_path
        /\ SameBag(LoadOrEmpty(Persisted).tracks, refreshed)

(* C15: every run completes the full flow.  In both programs a run whose   *)
(* load and fetch succeed saves a new snapshot and returns a pair          *)
(* (added, deleted), whether the previous snapshot is empty or not.        *)
C15_FullFlow ==
    (Ended /\ outcome \notin {"load raised", "fetch raised"}) =>
        /\ outcome = "returned"
        /\ saved_to # ""

\* the remote record of a stored track says something else about it
RemoteDiffers(p) ==
    \E j \in 1..Len(actual) :
        /\ actual[j].track_id = p.track_id
        /\ actual[j].artist # p.artist
        /\ actual[j].title # p.title
        /\ actual[j].added_at # p.added_at

(* C16: frame of reconciliation.  For a record of the previous snapshot a  *)
(* run changes nothing but is_deleted: track_id, artist, title, added_at   *)
(* are kept whatever the remote record says, and a record that is neither  *)
(* restored nor deleted is carried forward with every field unchanged.     *)
C16_Frame ==
    GeneralDone =>
        \A i \in 1..Len(existing) :
            /\ refreshed[i].track_id = existing[i].track_id
            /\ refreshed[i].artist = existing[i].artist
            /\ refreshed[i].title = existing[i].title
            /\ refreshed[i].added_at = existing[i].added_at
            /\ (existing[i].is_deleted = ~RemoteAvailable(existing[i].track_id)) =>
                   refreshed[i] = existing[i]

\* the remote record differs in artist, title and added_at from a record
\* that is carried forward unchanged, and from one whose flag flips
C16_Witness ==
    /\ GeneralDone
    /\ \E i, j \in 1..Len(existing) :
           /\ RemoteDiffers(existing[i]) /\ refreshed[i] = existing[i]
           /\ RemoteDiffers(existing[j]) /\ refreshed[j].is_deleted # existing[j].is_deleted

(* C17: change-set consistency.  In every run that returns its lists,      *)
(* added and deleted share no track_id, every record of deleted is in the  *)
(* new snapshot with is_deleted = true, and every record of added is in    *)
(* the new snapshot.                                                       *)
C17_ChangeSets ==
    outcome = "returned" =>
        /\ TrackIds(added) \cap TrackIds(deleted) = {}
        /\ \A k \in 1..Len(deleted) :
               /\ deleted[k].is_deleted
               /\ deleted[k] \in Range(refreshed)
        /\ \A k \in 1..Len(added) : added[k] \in Range(refreshed)

\* a run that reports both an added and a deleted track
C17_Witness ==
    /\ GeneralDone
    /\ Len(added) > 0
    /\ Len(deleted) > 0

\* the fetch of the run holds an available record of the track
SeenAvailable(id) ==
    \E i \in 1..Len(actual) : actual[i].track_id = id /\ ~actual[i].is_deleted

(* C18: report-once over time.  Of two consecutive completed runs against *)
(* the same snapshot location, the second reports in added no track_id the *)
(* first reported in added, reports in deleted no track_id the first       *)
(* reported in deleted, and reports in deleted only a track the first saw  *)
(* available remotely: a track that stays absent or unavailable is         *)
(* reported deleted in the first of them only.                             *)
C18_ReportOnce ==
    (program = "refresh" /\ outcome = "returned") =>
        \A fetch \in Fetches :
            LET next == RefreshPlaylist(files, csv_path, fetch)
            IN  next.outcome = "returned" =>
                    /\ TrackIds(next.added) \cap TrackIds(added) = {}
                    /\ TrackIds(next.deleted) \cap TrackIds(deleted) = {}
                    /\ \A id \in TrackIds(next.deleted) : SeenAvailable(id)

====
